---------------------------- MODULE Spec2Model ----------------------------
(***************************************************************************)
(* python-direnv: loading an .envrc file into the process environment      *)
(* behind direnv's allow-list (src/src/direnv/main.py).                    *)
(*                                                                         *)
(* The world the library reads is modelled explicitly: a directory chain,  *)
(* the entry named .envrc of each directory, the allow directory of each   *)
(* data home, the process environment, the working directory and the       *)
(* directory of the calling script.  Strings are sequences of characters   *)
(* so that quoting, stripping and pattern matching are computed.           *)
(***************************************************************************)
EXTENDS Naturals, Sequences, FiniteSets, TLC

VARIABLES
    node,        \* node[d]: the entry named .envrc in directory d
    allow,       \* allow[h]: the files of h/direnv/allow, name |-> content
    environ,     \* os.environ: key |-> value (a function on the keys set)
    cwd,         \* os.getcwd()
    callerDir,   \* directory of the first frame outside main.py
    interactive, \* _is_interactive() or sys.frozen
    pc,          \* position of the current invocation
    args,        \* arguments of the current invocation
    dotenv_path, \* local dotenv_path of direnv_values
    checked,     \* file is_allowed was evaluated on in this invocation
    sourced,     \* file handed to the shell subprocess in this invocation
    captured,    \* pairs yielded by parse_bash_env
    env_dict,    \* mapping returned by direnv_values
    outcome,     \* how the invocation ended: a value or an exception
    envBefore,   \* os.environ when the invocation started
    last,        \* the previous invocation, when it was a completed load
    calls        \* number of invocations started

vars == <<node, allow, environ, cwd, callerDir, interactive, pc, args,
          dotenv_path, checked, sourced, captured, env_dict, outcome,
          envBefore, last, calls>>

-----------------------------------------------------------------------------
(* Bounds of the model.                                                    *)

\* depth of the directory chain below the root
MaxDepth == 2
\* invocations of the public functions in one behaviour
MaxCalls == 2

-----------------------------------------------------------------------------
(* Paths.  A directory is the sequence of its components below the root;   *)
(* the chain has one directory per depth.                                  *)

DirName == "p"
EnvrcName == ".envrc"

Dirs == { [i \in 1..n |-> DirName] : n \in 0..MaxDepth }

Root == << >>

\* os.path.abspath(os.path.join(current_dir, os.path.pardir))
ParentDir(d) == IF d = Root THEN Root ELSE SubSeq(d, 1, Len(d) - 1)

\* the absolute path of the entry named .envrc in directory d
EnvrcIn(d) == Append(d, EnvrcName)

FilePaths == { EnvrcIn(d) : d \in Dirs }

\* os.path.dirname of an absolute path
DirOf(p) == IF p = Root THEN Root ELSE SubSeq(p, 1, Len(p) - 1)

(* A path string as the caller writes it: absolute or relative, with its   *)
(* components.  [abs |-> FALSE, segs |-> << >>] is the empty string.       *)
EmptyStr == [abs |-> FALSE, segs |-> << >>]
RelEnvrc == [abs |-> FALSE, segs |-> <<EnvrcName>>]
AbsStr(p) == [abs |-> TRUE, segs |-> p]

\* os.path.join(dirname, filename), dirname absolute
PathJoin(d, f) == IF f.abs THEN f.segs ELSE d \o f.segs

\* os.path.abspath(path)
AbsPath(f) == PathJoin(cwd, f)

-----------------------------------------------------------------------------
(* File system entries.                                                    *)

NoNode == [kind |-> "none"]
DirNode == [kind |-> "dir"]
FileNode(c) == [kind |-> "file", content |-> c]
LinkNode(t) == [kind |-> "link", target |-> t]

RECURSIVE FollowFrom(_, _)
\* the directory whose .envrc entry the chain of symlinks from d ends at,
\* or "loop" when more than n links were followed (ELOOP)
FollowFrom(d, n) ==
    IF node[d].kind # "link" THEN <<"end", d>>
    ELSE IF n = 0 THEN <<"loop", d>>
    ELSE FollowFrom(node[d].target, n - 1)

Follow(d) == FollowFrom(d, Cardinality(Dirs))

\* os.path.isfile(p)
IsFile(p) ==
    /\ p \in FilePaths
    /\ Follow(DirOf(p))[1] = "end"
    /\ node[Follow(DirOf(p))[2]].kind = "file"

\* what open(p).read() returns, for IsFile(p): the name of a script
ReadFile(p) == node[Follow(DirOf(p))[2]].content

\* os.path.realpath(p), for IsFile(p)
RealPath(p) == EnvrcIn(Follow(DirOf(p))[2])

-----------------------------------------------------------------------------
(* Strings.  A string is a sequence of characters; a key of the            *)
(* environment and the words "declare -x " are single tokens.              *)

NoValue == [none |-> TRUE]

DeclX == "declare -x "
Whitespace == {" ", "\n", "\t"}

RECURSIVE LStrip(_)
LStrip(s) == IF s # << >> /\ Head(s) \in Whitespace THEN LStrip(Tail(s)) ELSE s

RECURSIVE RStrip(_)
RStrip(s) ==
    IF s # << >> /\ s[Len(s)] \in Whitespace
    THEN RStrip(SubSeq(s, 1, Len(s) - 1))
    ELSE s

\* str.strip()
Strip(s) == RStrip(LStrip(s))

\* a function with one more key: d[k] = v
Put(f, k, v) == [x \in DOMAIN f \cup {k} |-> IF x = k THEN v ELSE f[x]]

EmptyMap == [x \in {} |-> x]

RECURSIVE PathChars(_)
\* the characters of an absolute path: "/" before each component
PathChars(p) ==
    IF p = << >> THEN << >> ELSE <<"/", Head(p)>> \o PathChars(Tail(p))

-----------------------------------------------------------------------------
(* TrustStore: direnv_file_hash, _xdg_data_home, is_allowed.               *)

XdgKey == "XDG_DATA_HOME"
\* str(Path.home() / ".local/share")
HomeShare == <<"~">>
\* a directory XDG_DATA_HOME may name
XdgShare == <<"x">>
DataHomes == {HomeShare, XdgShare}

\* sha256 of "{abs_path}\n{content}", modelled collision free: the digest
\* is the pair it was computed from
Sha256(abs_path, content) == <<abs_path, content>>

\* direnv_file_hash(path), for IsFile(AbsPath(path))
direnv_file_hash(path) == Sha256(AbsPath(path), ReadFile(AbsPath(path)))

\* _xdg_data_home()
xdg_data_home ==
    IF XdgKey \in DOMAIN environ /\ environ[XdgKey] # << >>
    THEN environ[XdgKey]
    ELSE HomeShare

\* the files of {data home}/direnv/allow
AllowDir == IF xdg_data_home \in DOMAIN allow THEN allow[xdg_data_home] ELSE EmptyMap

\* open(abs_path) in direnv_file_hash raises unless the path is a readable file
is_allowed_raises(path) == ~IsFile(AbsPath(path))

\* is_allowed falling through to True
is_allowed_unchecked(path) == TRUE

\* is_allowed comparing the stored path with the path as given
is_allowed_abspath(path) ==
    LET file_hash_value == direnv_file_hash(path)
    IN  /\ file_hash_value \in DOMAIN AllowDir
        /\ LET real_path == Strip(AllowDir[file_hash_value])
           IN  PathChars(AbsPath(path)) = real_path

\* is_allowed(path), for ~is_allowed_raises(path)
is_allowed(path) ==
    LET file_hash_value == direnv_file_hash(path)
    IN  /\ file_hash_value \in DOMAIN AllowDir
        /\ LET real_path == Strip(AllowDir[file_hash_value])
           IN  PathChars(RealPath(AbsPath(path))) = real_path

-----------------------------------------------------------------------------
(* FileLocator: _walk_to_root, find_direnv.                                *)

NoDir == <<"<None>">>

RECURSIVE WalkLoop(_, _)
\* the while loop of _walk_to_root: the directories it yields
WalkLoop(last_dir, current_dir) ==
    IF last_dir = current_dir THEN << >>
    ELSE <<current_dir>> \o WalkLoop(current_dir, ParentDir(current_dir))

\* _walk_to_root stopping below the root
walk_to_root_short(path) ==
    LET w == WalkLoop(NoDir, path) IN SubSeq(w, 1, Len(w) - 1)

\* _walk_to_root(path), path an existing directory
walk_to_root(path) == WalkLoop(NoDir, path)

\* the directory find_direnv starts from
StartDir(usecwd) == IF usecwd \/ interactive THEN cwd ELSE callerDir

RECURSIVE FirstMatch(_, _, _)
\* the for loop of find_direnv over dirs[i..]
FirstMatch(dirs, i, filename) ==
    IF i > Len(dirs) THEN EmptyStr
    ELSE IF IsFile(PathJoin(dirs[i], filename))
         THEN AbsStr(PathJoin(dirs[i], filename))
         ELSE FirstMatch(dirs, i + 1, filename)

\* find_direnv raising whenever it finds nothing
find_direnv_strict(filename, raise_error_if_not_found, usecwd) ==
    LET found == FirstMatch(walk_to_root(StartDir(usecwd)), 1, filename)
    IN  IF found = EmptyStr
        THEN [exc |-> "IOError", path |-> EmptyStr]
        ELSE [exc |-> "none", path |-> found]

\* find_direnv(filename, raise_error_if_not_found, usecwd):
\* [exc, path]
find_direnv(filename, raise_error_if_not_found, usecwd) ==
    LET found == FirstMatch(walk_to_root(StartDir(usecwd)), 1, filename)
    IN  IF found = EmptyStr /\ raise_error_if_not_found
        THEN [exc |-> "IOError", path |-> EmptyStr]
        ELSE [exc |-> "none", path |-> found]

-----------------------------------------------------------------------------
(* ShellEnvironmentCapture: the shell subprocess of direnv_as_stream and   *)
(* parse_bash_env.  The content of an .envrc file is a script, a sequence  *)
(* of commands; the subprocess inherits os.environ, changes directory,     *)
(* runs the script and prints `declare -x`.                                *)

ExcludedKeys == {"OLDPWD", "PWD", "SHLVL", "_"}

\* the names `declare -x` prints, in the order it prints them
KeyOrder == <<"OLDPWD", "PWD", "SHLVL", "XDG_DATA_HOME", "_", "a", "d">>

Keys == { KeyOrder[i] : i \in DOMAIN KeyOrder }

\* the characters the shell escapes with a backslash inside double quotes
\* (the token "backquote" stands for the backquote character)
ShellSpecial == {"$", "backquote", "\"", "\\"}

RECURSIVE Escape(_)
\* a value as `declare -x` prints it between the double quotes
Escape(v) ==
    IF v = << >> THEN << >>
    ELSE (IF Head(v) \in ShellSpecial THEN <<"\\", Head(v)>> ELSE <<Head(v)>>)
         \o Escape(Tail(v))

\* the path of a directory as the shell prints it
PathStrOf(d) == IF d = Root THEN <<"/">> ELSE PathChars(d)

\* SHLVL of a shell started with the inherited value v
NextShlvl(env) ==
    IF "SHLVL" \in DOMAIN env /\ env["SHLVL"] = <<"1">> THEN <<"2">> ELSE <<"1">>

\* the shell's exported variables once it has started and run `cd wd`
ShellStart(env, wd) ==
    [k \in DOMAIN env \cup ExcludedKeys |->
        CASE k = "PWD" -> PathStrOf(wd)
          [] k = "OLDPWD" -> PathStrOf(cwd)
          [] k = "SHLVL" -> NextShlvl(env)
          [] k = "_" -> <<"/", "bin", "/", "sh">>
          [] OTHER -> env[k]]

\* Commands of a script:
\*   export k=v                  [op |-> "export", k, v]
\*   export k="${from}"          [op |-> "copy", k, from]
\*   [ -n "$c" ] && export k=v   [op |-> "exportif", c, k, v]
\*   export k  (k unset)         [op |-> "declare", k]
\*   echo text                   [op |-> "echo", text]
\*   return 1                    [op |-> "return"]
\* The contents an .envrc file has in the model, by name.
Program ==
    [ empty    |-> << >>,
      export   |-> << [op |-> "export", k |-> "a", v |-> <<"b">>] >>,
      copy     |-> << [op |-> "export", k |-> "a", v |-> <<"b">>],
                      [op |-> "copy", k |-> "d", from |-> "a"] >>,
      copy1st  |-> << [op |-> "copy", k |-> "d", from |-> "a"],
                      [op |-> "export", k |-> "a", v |-> <<"b">>] >>,
      cond     |-> << [op |-> "exportif", c |-> "a", k |-> "d", v |-> <<"1">>],
                      [op |-> "export", k |-> "a", v |-> <<"b">>] >>,
      echo     |-> << [op |-> "echo", text |-> <<DeclX, "a", "=", "\"", "1", "\"">>],
                      [op |-> "echo", text |-> <<"h", "i">>],
                      [op |-> "export", k |-> "a", v |-> <<"b">>] >>,
      special  |-> << [op |-> "export", k |-> "a", v |-> <<"$">>] >>,
      declare  |-> << [op |-> "declare", k |-> "d"],
                      [op |-> "export", k |-> "a", v |-> <<"b">>] >>,
      fail     |-> << [op |-> "return"] >> ]

Contents == DOMAIN Program

RECURSIVE Exec(_, _, _)
\* the state of the shell, [env, nv, out, rc], after the commands i.. of script
Exec(script, i, st) ==
    IF i > Len(script) THEN st
    ELSE LET c == script[i]
         IN  CASE c.op = "export" ->
                    Exec(script, i + 1,
                         [st EXCEPT !.env = Put(st.env, c.k, c.v),
                                    !.nv = st.nv \ {c.k}])
               [] c.op = "copy" ->
                    Exec(script, i + 1,
                         [st EXCEPT !.env = Put(st.env, c.k,
                                        IF c.from \in DOMAIN st.env
                                        THEN st.env[c.from] ELSE << >>),
                                    !.nv = st.nv \ {c.k}])
               [] c.op = "exportif" ->
                    Exec(script, i + 1,
                         IF c.c \in DOMAIN st.env /\ st.env[c.c] # << >>
                         THEN [st EXCEPT !.env = Put(st.env, c.k, c.v),
                                         !.nv = st.nv \ {c.k}]
                         ELSE st)
               [] c.op = "declare" ->
                    Exec(script, i + 1,
                         IF c.k \in DOMAIN st.env THEN st
                         ELSE [st EXCEPT !.nv = st.nv \cup {c.k}])
               [] c.op = "echo" ->
                    Exec(script, i + 1,
                         [st EXCEPT !.out = st.out \o c.text \o <<"\n">>])
               [] c.op = "return" -> [st EXCEPT !.rc = 1]

RECURSIVE DeclareX(_, _, _)
\* the output of `declare -x` for the names KeyOrder[i..]
DeclareX(env, nv, i) ==
    IF i > Len(KeyOrder) THEN << >>
    ELSE LET k == KeyOrder[i]
         IN  (IF k \in DOMAIN env
              THEN <<DeclX, k, "=", "\"">> \o Escape(env[k]) \o <<"\"", "\n">>
              ELSE IF k \in nv THEN <<DeclX, k, "\n">> ELSE << >>)
             \o DeclareX(env, nv, i + 1)

\* what the shell prints when it cannot source a path
SourceDiagnostic == <<"source: cannot read", "\n">>

\* subprocess.run("cd {wd} 2>&1 && source {file_path} 2>&1 && declare -x"):
\* [returncode, stdout, stderr].  Both `cd` and `source` run under 2>&1, so
\* what they and the script write to the error stream arrives on stdout;
\* only `declare -x`, which runs once they have succeeded, keeps its own.
ShellRun(file_path) ==
    LET wd == DirOf(file_path)
    IN  IF ~IsFile(file_path)
        THEN [returncode |-> 1, stdout |-> SourceDiagnostic, stderr |-> << >>]
        ELSE CHOOSE result \in
                 { IF st.rc # 0
                   THEN [returncode |-> st.rc, stdout |-> st.out, stderr |-> << >>]
                   ELSE [returncode |-> 0,
                         stdout |-> st.out \o DeclareX(st.env, st.nv, 1),
                         stderr |-> << >>] :
                   st \in { Exec(Program[ReadFile(file_path)], 1,
                                 [env |-> ShellStart(environ, wd), nv |-> {},
                                  out |-> << >>, rc |-> 0]) } } : TRUE

RECURSIVE SplitLines(_, _)
\* iterating a text stream: the lines of text, cur the line being read
SplitLines(text, cur) ==
    IF text = << >> THEN (IF cur = << >> THEN << >> ELSE <<cur>>)
    ELSE IF Head(text) = "\n"
         THEN <<Append(cur, "\n")>> \o SplitLines(Tail(text), << >>)
         ELSE SplitLines(Tail(text), Append(cur, Head(text)))

\* the index of the last double quote of line, 0 when it has none
LastQuote(line) ==
    LET qs == { j \in 5..Len(line) : line[j] = "\"" }
    IN  IF qs = {} THEN 0 ELSE CHOOSE j \in qs : \A q \in qs : q <= j

\* env_var_pattern.match(line): declare -x (\w+)="(.*)"
Matches(line) ==
    /\ Len(line) >= 5
    /\ line[1] = DeclX
    /\ line[2] \in Keys
    /\ line[3] = "="
    /\ line[4] = "\""
    /\ LastQuote(line) # 0

RECURSIVE ParseLines(_, _)
\* the pairs parse_bash_env yields for lines[i..]
ParseLines(lines, i) ==
    IF i > Len(lines) THEN << >>
    ELSE LET line == Strip(lines[i])
         IN  (IF Matches(line)
              THEN << <<line[2], SubSeq(line, 5, LastQuote(line) - 1)>> >>
              ELSE << >>)
             \o ParseLines(lines, i + 1)

\* io.StringIO(text): the stream, as the sequence of the lines it yields
StringIO(text) == SplitLines(text, << >>)

\* parse_bash_env(stream)
parse_bash_env(stream) == ParseLines(stream, 1)

-----------------------------------------------------------------------------
(* EnvironmentReconciler: the comprehension of direnv_values and the loop  *)
(* of load_direnv.                                                         *)

\* the comprehension without the comparison with os.environ
KeepsUncompared(key, value) == key \notin ExcludedKeys

\* the condition of the comprehension of direnv_values
Keeps(key, value) ==
    /\ key \notin ExcludedKeys
    /\ ~(key \in DOMAIN environ /\ environ[key] = value)

RECURSIVE DictOf(_, _, _)
\* the dict built from items[i..] on top of acc: a later pair replaces
\* an earlier one with the same key
DictOf(items, i, acc) ==
    IF i > Len(items) THEN acc
    ELSE DictOf(items, i + 1,
                IF Keeps(items[i][1], items[i][2])
                THEN Put(acc, items[i][1], items[i][2])
                ELSE acc)

\* the value None of an Optional[str]: no string is equal to it
NoneStr == <<"<None>">>

\* the keys the loop of load_direnv assigns
Assigned(d, override) ==
    { k \in DOMAIN d : ~(k \in DOMAIN environ /\ ~override) /\ d[k] # NoneStr }

\* the loop of load_direnv without the override guard
ApplyDictAlways(d, override) ==
    [k \in DOMAIN environ \cup DOMAIN d |->
        IF k \in DOMAIN d THEN d[k] ELSE environ[k]]

\* os.environ after the loop of load_direnv over d
ApplyDict(d, override) ==
    [k \in DOMAIN environ \cup Assigned(d, override) |->
        IF k \in Assigned(d, override) THEN d[k] ELSE environ[k]]

-----------------------------------------------------------------------------
(* Invocations of load_direnv and direnv_values.  One invocation moves     *)
(* through the positions RESOLVING, VERIFYING, CAPTURING, RECONCILING and  *)
(* ends in DONE or in the position of the statement that ended it.         *)

PathArgs == {NoValue, EmptyStr, RelEnvrc} \cup { AbsStr(p) : p \in FilePaths }

Args ==
    { a \in [fn : {"load_direnv", "direnv_values"},
             dotenv_path : PathArgs,
             stream : {"None", "stream"},
             verbose : BOOLEAN,
             override : BOOLEAN,
             interpolate : BOOLEAN,
             encoding : {"None", "utf-8"}] :
        a.fn = "direnv_values" => ~a.override }

NoOutcome == [exc |-> "none", msg |-> "", ret |-> "None", warned |-> FALSE]

Raise(exc, msg) == [exc |-> exc, msg |-> msg, ret |-> "None", warned |-> FALSE]

\* what the invocation returns once direnv_values has returned the dict d:
\* the dict itself, or the `return True` that ends load_direnv
ReturnValue(fn, d) == IF fn = "direnv_values" THEN "dict" ELSE "True"

Terminal == {"DONE", "NOT_FOUND", "NOT_TRUSTED", "EXEC_FAILED", "REJECTED",
             "IO_ERROR"}

\* the position after a direct call of find_direnv or is_allowed
Returned == "RETURNED"

\* the locals of an invocation, before it has assigned them
ResetLocals ==
    /\ dotenv_path' = NoValue
    /\ checked' = NoValue
    /\ sourced' = NoValue
    /\ captured' = << >>
    /\ env_dict' = EmptyMap
    /\ outcome' = NoOutcome

\* the call, and the checks of encoding and interpolate that open both
\* functions
Call(a) ==
    /\ pc = "idle"
    /\ calls < MaxCalls
    /\ calls' = calls + 1
    /\ args' = a
    /\ envBefore' = environ
    /\ IF a.encoding # "None"
       THEN /\ pc' = "REJECTED"
            /\ outcome' = Raise("NotImplementedError",
                                "Use LC_ALL to change the encoding for now.")
       ELSE IF ~a.interpolate
       THEN /\ pc' = "REJECTED"
            /\ outcome' = Raise("NotImplementedError", "")
       ELSE /\ pc' = "RESOLVING"
            /\ outcome' = NoOutcome
    /\ UNCHANGED <<node, allow, environ, cwd, callerDir, interactive,
                   dotenv_path, checked, sourced, captured, env_dict, last>>

\* direnv_values never taking the branch that rejects a stream
StreamRejectedNever(a) == FALSE

\* the `else` branch of `if stream is None`: a stream without a path
StreamRejected(a) == a.dotenv_path = NoValue /\ a.stream # "None"

\* direnv_values, from `if dotenv_path is None` to `return {}`
Resolve ==
    /\ pc = "RESOLVING"
    /\ IF StreamRejected(args)
       THEN /\ pc' = "REJECTED"
            /\ outcome' = Raise("NotImplementedError",
                                "Executing shell commands from a stream is not safe.")
            /\ UNCHANGED <<dotenv_path, env_dict>>
       ELSE LET found == IF args.dotenv_path = NoValue
                         THEN find_direnv(RelEnvrc, FALSE, FALSE)
                         ELSE [exc |-> "none", path |-> args.dotenv_path]
            IN  IF found.exc # "none"
                THEN /\ pc' = "IO_ERROR"
                     /\ outcome' = Raise(found.exc, "")
                     /\ UNCHANGED <<dotenv_path, env_dict>>
                ELSE /\ dotenv_path' = found.path
                     /\ IF found.path = EmptyStr
                        THEN /\ pc' = "NOT_FOUND"
                             /\ env_dict' = EmptyMap
                             /\ outcome' = [exc |-> "none", msg |-> "",
                                            ret |-> ReturnValue(args.fn, EmptyMap),
                                            warned |-> args.verbose]
                        ELSE /\ pc' = "VERIFYING"
                             /\ UNCHANGED <<env_dict, outcome>>
    /\ UNCHANGED <<node, allow, environ, cwd, callerDir, interactive, args,
                   checked, sourced, captured, envBefore, last, calls>>

\* direnv_values, `elif not is_allowed(dotenv_path)`
Verify ==
    /\ pc = "VERIFYING"
    /\ IF is_allowed_raises(dotenv_path)
       THEN /\ pc' = "IO_ERROR"
            /\ outcome' = Raise("OSError", "")
            /\ UNCHANGED checked
       ELSE /\ checked' = [file |-> AbsPath(dotenv_path),
                           allowed |-> is_allowed(dotenv_path)]
            /\ IF is_allowed(dotenv_path)
               THEN /\ pc' = "CAPTURING"
                    /\ UNCHANGED outcome
               ELSE /\ pc' = "NOT_TRUSTED"
                    /\ outcome' = Raise("PermissionError", "is not allowed by direnv.")
    /\ UNCHANGED <<node, allow, environ, cwd, callerDir, interactive, args,
                   dotenv_path, sourced, captured, env_dict, envBefore, last,
                   calls>>

\* direnv_as_stream without the check of the return code
direnv_as_stream_unchecked(path) ==
    CHOOSE stream \in
        { [file_path |-> AbsPath(path), returncode |-> 0,
           stdout |-> result.stdout, stderr |-> result.stderr,
           stream |-> StringIO(result.stdout)] :
          result \in {ShellRun(AbsPath(path))} } : TRUE

\* direnv_as_stream(path): [file_path, returncode, stdout, stderr, stream],
\* stream being the io.StringIO(result.stdout) it returns
direnv_as_stream(path) ==
    CHOOSE stream \in
        { [file_path |-> AbsPath(path), returncode |-> result.returncode,
           stdout |-> result.stdout, stderr |-> result.stderr,
           stream |-> StringIO(result.stdout)] :
          result \in {ShellRun(AbsPath(path))} } : TRUE

\* direnv_values, direnv_as_stream(find_direnv(dotenv_path)) and the
\* parse of its output
Capture ==
    /\ pc = "CAPTURING"
    /\ \E found \in {find_direnv(dotenv_path, FALSE, FALSE)} :
           IF found.exc # "none"
           THEN /\ pc' = "IO_ERROR"
                /\ outcome' = Raise(found.exc, "")
                /\ UNCHANGED <<sourced, captured>>
           ELSE \E result \in {direnv_as_stream(found.path)} :
                    /\ sourced' = result.file_path
                    /\ IF result.returncode # 0
                       THEN /\ pc' = "EXEC_FAILED"
                            /\ outcome' = [exc |-> "RuntimeError",
                                           msg |-> "Failed to source",
                                           ret |-> "None", warned |-> FALSE,
                                           stderr |-> result.stderr]
                            /\ UNCHANGED captured
                       ELSE /\ pc' = "RECONCILING"
                            /\ captured' = parse_bash_env(result.stream)
                            /\ UNCHANGED outcome
    /\ UNCHANGED <<node, allow, environ, cwd, callerDir, interactive, args,
                   dotenv_path, checked, env_dict, envBefore, last, calls>>

\* the comprehension of direnv_values and, in load_direnv, the loop over
\* its result
Reconcile ==
    /\ pc = "RECONCILING"
    /\ LET d == DictOf(captured, 1, EmptyMap)
       IN  /\ env_dict' = d
           /\ environ' = IF args.fn = "load_direnv"
                         THEN ApplyDict(d, args.override)
                         ELSE environ
           /\ outcome' = [exc |-> "none", msg |-> "",
                          ret |-> ReturnValue(args.fn, d), warned |-> FALSE]
    /\ pc' = "DONE"
    /\ UNCHANGED <<node, allow, cwd, callerDir, interactive, args, dotenv_path,
                   checked, sourced, captured, envBefore, last, calls>>

\* the caller has the result; the next invocation may start
Return ==
    /\ pc \in Terminal \cup {Returned}
    /\ pc' = "idle"
    /\ last' = IF pc = "DONE" /\ args.fn = "load_direnv"
               THEN [dotenv_path |-> args.dotenv_path,
                     override |-> args.override,
                     environ |-> environ]
               ELSE NoValue
    /\ args' = NoValue
    /\ envBefore' = environ
    /\ ResetLocals
    /\ UNCHANGED <<node, allow, environ, cwd, callerDir, interactive, calls>>

Next ==
    \/ \E a \in Args : Call(a)
    \/ Resolve
    \/ Verify
    \/ Capture
    \/ Reconcile
    \/ Return

-----------------------------------------------------------------------------
(* Initial states.                                                         *)

\* the text of the allow entry direnv writes for the file p
AllowEntry(p) == PathChars(p) \o <<"\n">>

IdleInit ==
    /\ pc = "idle"
    /\ args = NoValue
    /\ dotenv_path = NoValue
    /\ checked = NoValue
    /\ sourced = NoValue
    /\ captured = << >>
    /\ env_dict = EmptyMap
    /\ outcome = NoOutcome
    /\ envBefore = environ
    /\ last = NoValue
    /\ calls = 0

\* the allow directory in which exactly the files of the directories in
\* ds are allowed, given the nodes nd (all regular files there)
AllowOf(nd, ds) ==
    [h \in {Sha256(EnvrcIn(d), nd[d].content) : d \in ds} |->
        AllowEntry(h[1])]

(* Spec: one invocation in every world: every placement of .envrc files   *)
(* along the chain, each allowed or not, every working directory and       *)
(* every directory of the caller, from a script or interactively.          *)
Init ==
    /\ node \in [Dirs -> {NoNode, FileNode("export")}]
    /\ \E ds \in SUBSET { d \in Dirs : node[d].kind = "file" } :
           allow = [h \in {HomeShare} |-> AllowOf(node, ds)]
    /\ environ = [k \in {"a"} |-> <<"c">>]
    /\ cwd \in Dirs
    /\ callerDir \in Dirs
    /\ interactive \in BOOLEAN
    /\ IdleInit

NextOnce ==
    \/ \E a \in Args : calls = 0 /\ Call(a)
    \/ Resolve
    \/ Verify
    \/ Capture
    \/ Reconcile
    \/ Return

Spec == Init /\ [][NextOnce]_vars

\* the directories that hold files in SpecFair: the root and its child
NearDirs == { d \in Dirs : Len(d) <= 1 }

(* SpecFair: one invocation, its steps taken once they are enabled: the    *)
(* code is synchronous and every script of Program ends.  The .envrc       *)
(* files, allowed or not, export a variable or fail.                       *)
InitFair ==
    /\ node \in [Dirs -> {NoNode, FileNode("export"), FileNode("fail")}]
    /\ \A d \in Dirs \ NearDirs : node[d] = NoNode
    /\ \E ds \in SUBSET { d \in Dirs : node[d].kind = "file" } :
           allow = [h \in {HomeShare} |-> AllowOf(node, ds)]
    /\ environ = [k \in {"a"} |-> <<"c">>]
    /\ cwd \in NearDirs
    /\ callerDir \in NearDirs
    /\ interactive = FALSE
    /\ IdleInit

SpecFair ==
    /\ InitFair
    /\ [][NextOnce]_vars
    /\ WF_vars(Resolve)
    /\ WF_vars(Verify)
    /\ WF_vars(Capture)
    /\ WF_vars(Reconcile)

\* the environments SpecLoad starts from
EnvInits ==
    { EmptyMap,
      [k \in {"a"} |-> <<"c">>],
      [k \in {"d"} |-> <<"$">>],
      [k \in {"a", "PWD"} |-> IF k = "a" THEN <<"b">> ELSE <<"/", "x">>] }

(* SpecLoad: up to MaxCalls invocations in succession, with one .envrc     *)
(* file in the root, the working directory, with every content, allowed    *)
(* or not, and every starting environment.                                 *)
InitLoad ==
    /\ \E c \in Contents :
           node = [d \in Dirs |-> IF d = Root THEN FileNode(c) ELSE NoNode]
    /\ \E ds \in SUBSET {Root} :
           allow = [h \in {HomeShare} |-> AllowOf(node, ds)]
    /\ environ \in EnvInits
    /\ cwd = Root
    /\ callerDir = Root
    /\ interactive = FALSE
    /\ IdleInit

SpecLoad == InitLoad /\ [][Next]_vars

-----------------------------------------------------------------------------
(* SpecFind: direct calls of find_direnv in every tree.                    *)

FindNames == {RelEnvrc} \cup { AbsStr(p) : p \in FilePaths }

\* a call find_direnv(filename, raise_error_if_not_found, usecwd)
FindCall(filename, raise_error_if_not_found, usecwd) ==
    /\ pc = "idle"
    /\ pc' = Returned
    /\ args' = [fn |-> "find_direnv", filename |-> filename,
                raise_error_if_not_found |-> raise_error_if_not_found,
                usecwd |-> usecwd]
    /\ LET r == find_direnv(filename, raise_error_if_not_found, usecwd)
       IN  /\ dotenv_path' = r.path
           /\ outcome' = [exc |-> r.exc, msg |-> "",
                          ret |-> IF r.exc = "none" THEN "path" ELSE "None",
                          warned |-> FALSE]
    /\ UNCHANGED <<node, allow, environ, cwd, callerDir, interactive, checked,
                   sourced, captured, env_dict, envBefore, last, calls>>

NextFind ==
    \/ \E f \in FindNames : \E r, u \in BOOLEAN : FindCall(f, r, u)
    \/ Return

InitFind ==
    /\ node \in [Dirs -> {NoNode, DirNode, FileNode("export")}
                         \cup { LinkNode(t) : t \in Dirs }]
    /\ allow = [h \in {HomeShare} |-> EmptyMap]
    /\ environ = EmptyMap
    /\ cwd \in Dirs
    /\ callerDir \in Dirs
    /\ interactive \in BOOLEAN
    /\ IdleInit

SpecFind == InitFind /\ [][NextFind]_vars

-----------------------------------------------------------------------------
(* SpecTrust: direct calls of is_allowed between changes made from         *)
(* outside: files edited and moved, a symlink retargeted, allow entries    *)
(* added and removed, XDG_DATA_HOME set and unset.                         *)

\* entries of the allow directories, all data homes together
MaxEntries == 1

\* the directories whose .envrc the changes touch: the three nearest the root
TrustDirs == { d \in Dirs : Len(d) <= 2 }
\* the .envrc that may be a symlink
LinkDir == Root
TrustContents == {"export", "empty"}
TrustPaths == {RelEnvrc} \cup { AbsStr(EnvrcIn(d)) : d \in TrustDirs }

Fingerprints == { Sha256(EnvrcIn(d), c) : d \in TrustDirs, c \in TrustContents }
EntryTexts ==
    { PathChars(EnvrcIn(d)) : d \in TrustDirs }
    \cup { AllowEntry(EnvrcIn(d)) : d \in TrustDirs }

EntryCount == Cardinality(DOMAIN allow[HomeShare]) + Cardinality(DOMAIN allow[XdgShare])

\* the content of the file .envrc of d is written
EditFile(d, c) ==
    /\ pc = "idle"
    /\ node[d].kind \in {"none", "file"}
    /\ node[d] # FileNode(c)
    /\ node' = [node EXCEPT ![d] = FileNode(c)]
    /\ UNCHANGED <<allow, environ, cwd, callerDir, interactive, pc, args,
                   dotenv_path, checked, sourced, captured, env_dict, outcome,
                   envBefore, last, calls>>

\* the file .envrc of d is moved to e
MoveFile(d, e) ==
    /\ pc = "idle"
    /\ node[d].kind = "file"
    /\ node[e].kind = "none"
    /\ node' = [node EXCEPT ![d] = NoNode, ![e] = node[d]]
    /\ UNCHANGED <<allow, environ, cwd, callerDir, interactive, pc, args,
                   dotenv_path, checked, sourced, captured, env_dict, outcome,
                   envBefore, last, calls>>

\* the .envrc of LinkDir is made a symlink to the .envrc of t, or retargeted
Retarget(t) ==
    /\ pc = "idle"
    /\ t # LinkDir
    /\ node[LinkDir].kind \in {"none", "link"}
    /\ node[LinkDir] # LinkNode(t)
    /\ node' = [node EXCEPT ![LinkDir] = LinkNode(t)]
    /\ UNCHANGED <<allow, environ, cwd, callerDir, interactive, pc, args,
                   dotenv_path, checked, sourced, captured, env_dict, outcome,
                   envBefore, last, calls>>

\* an entry named fp is written under the data home h
AddAllow(h, fp, text) ==
    /\ pc = "idle"
    /\ fp \notin DOMAIN allow[h]
    /\ EntryCount < MaxEntries
    /\ allow' = [allow EXCEPT ![h] = Put(allow[h], fp, text)]
    /\ UNCHANGED <<node, environ, cwd, callerDir, interactive, pc, args,
                   dotenv_path, checked, sourced, captured, env_dict, outcome,
                   envBefore, last, calls>>

\* the entry named fp is removed from under the data home h
RemoveAllow(h, fp) ==
    /\ pc = "idle"
    /\ fp \in DOMAIN allow[h]
    /\ allow' = [allow EXCEPT ![h] = [x \in DOMAIN allow[h] \ {fp} |-> allow[h][x]]]
    /\ UNCHANGED <<node, environ, cwd, callerDir, interactive, pc, args,
                   dotenv_path, checked, sourced, captured, env_dict, outcome,
                   envBefore, last, calls>>

\* XDG_DATA_HOME is set to v, or unset
SetDataHome(v) ==
    /\ pc = "idle"
    /\ environ' = IF v = NoneStr THEN EmptyMap ELSE [k \in {XdgKey} |-> v]
    /\ environ' # environ
    /\ envBefore' = environ'
    /\ UNCHANGED <<node, allow, cwd, callerDir, interactive, pc, args,
                   dotenv_path, checked, sourced, captured, env_dict, outcome,
                   last, calls>>

\* a call is_allowed(path)
IsAllowedCall(path) ==
    /\ pc = "idle"
    /\ pc' = Returned
    /\ args' = [fn |-> "is_allowed", path |-> path]
    /\ outcome' = IF is_allowed_raises(path)
                  THEN Raise("OSError", "")
                  ELSE [exc |-> "none", msg |-> "",
                        ret |-> IF is_allowed(path) THEN "True" ELSE "False",
                        warned |-> FALSE]
    /\ UNCHANGED <<node, allow, environ, cwd, callerDir, interactive,
                   dotenv_path, checked, sourced, captured, env_dict,
                   envBefore, last, calls>>

NextTrust ==
    \/ \E d \in TrustDirs \ {LinkDir} : \E c \in TrustContents : EditFile(d, c)
    \/ \E d, e \in TrustDirs \ {LinkDir} : MoveFile(d, e)
    \/ \E t \in TrustDirs : Retarget(t)
    \/ \E h \in DataHomes : \E fp \in Fingerprints : \E text \in EntryTexts :
           AddAllow(h, fp, text)
    \/ \E h \in DataHomes : \E fp \in Fingerprints : RemoveAllow(h, fp)
    \/ \E v \in {NoneStr, << >>, XdgShare} : SetDataHome(v)
    \/ \E path \in TrustPaths : IsAllowedCall(path)
    \/ Return

InitTrust ==
    /\ node = [d \in Dirs |-> NoNode]
    /\ allow = [h \in DataHomes |-> EmptyMap]
    /\ environ = EmptyMap
    /\ cwd = Root
    /\ callerDir = Root
    /\ interactive = FALSE
    /\ IdleInit

SpecTrust == InitTrust /\ [][NextTrust]_vars

-----------------------------------------------------------------------------
(* Properties.                                                             *)

\* the text is s with white space before and after it
IsPadded(text, s) ==
    \E m \in 0..Len(text) : \E n \in 0..(Len(text) - m) :
        /\ SubSeq(text, m + 1, Len(text) - n) = s
        /\ \A i \in 1..m : text[i] \in Whitespace
        /\ \A i \in (Len(text) - n + 1)..Len(text) : text[i] \in Whitespace

\* the allow directory of the data home in use holds an entry named by the
\* fingerprint of the file p that names the real path of p
AllowListed(p) ==
    \E h \in DOMAIN AllowDir :
        /\ h = <<p, ReadFile(p)>>
        /\ IsPadded(AllowDir[h], PathChars(RealPath(p)))

\* the invocation in progress has arguments the opening checks accept
ValidArgs == args.encoding = "None" /\ args.interpolate

\* the invocation in progress was given a path
PathGiven == args.dotenv_path \notin {NoValue, EmptyStr}

\* C1: an invocation on a path that resolves to an existing file that is
\* not allowed ends in PermissionError, and in none of its states has a
\* subprocess been run or the environment been changed.
C1_UntrustedRaises ==
    (/\ pc # "idle"
     /\ PathGiven
     /\ IsFile(AbsPath(args.dotenv_path))
     /\ ~AllowListed(AbsPath(args.dotenv_path)))
    => /\ sourced = NoValue
       /\ environ = envBefore
       /\ ValidArgs => pc \in {"RESOLVING", "VERIFYING", "NOT_TRUSTED"}
       /\ pc = "NOT_TRUSTED" => outcome.exc = "PermissionError"
       /\ pc \in Terminal => outcome.exc \in {"PermissionError", "NotImplementedError"}

C1_Witness ==
    /\ pc = "NOT_TRUSTED"
    /\ args.fn = "load_direnv"
    /\ args.dotenv_path = RelEnvrc
    /\ IsFile(AbsPath(RelEnvrc))
    /\ ~AllowListed(AbsPath(RelEnvrc))
    /\ outcome.exc = "PermissionError"

\* C2: the subprocess is started only after is_allowed returned true in the
\* same invocation, and the file it sources is the file is_allowed was
\* evaluated on.
C2_SourcedIsChecked ==
    sourced # NoValue =>
        /\ checked # NoValue
        /\ checked.allowed
        /\ sourced = checked.file

\* C3: after a successful load_direnv, a key of the result that was absent
\* has the result's value, a key that was present keeps its value unless
\* override is set, every other variable is unchanged, none is removed.
C3_OverrideSemantics ==
    (pc \in {"DONE", "NOT_FOUND"} /\ args.fn = "load_direnv") =>
        /\ DOMAIN envBefore \subseteq DOMAIN environ
        /\ \A k \in DOMAIN environ :
              IF k \in DOMAIN env_dict /\ env_dict[k] # NoneStr
              THEN IF k \in DOMAIN envBefore /\ ~args.override
                   THEN environ[k] = envBefore[k]
                   ELSE environ[k] = env_dict[k]
              ELSE k \in DOMAIN envBefore /\ environ[k] = envBefore[k]
        /\ \A k \in DOMAIN env_dict :
              env_dict[k] # NoneStr => k \in DOMAIN environ

C3_Witness ==
    /\ pc = "DONE"
    /\ args.fn = "load_direnv"
    /\ args.override
    /\ "a" \in DOMAIN envBefore
    /\ "a" \in DOMAIN env_dict
    /\ "d" \in DOMAIN env_dict
    /\ "d" \notin DOMAIN envBefore
    /\ environ["a"] = env_dict["a"]
    /\ environ["a"] # envBefore["a"]

\* C4: load_direnv returns True exactly when the mapping computed in the
\* call was not empty, and False otherwise.
C4_ReturnReflectsDiff ==
    (pc \in {"DONE", "NOT_FOUND"} /\ args.fn = "load_direnv") =>
        (outcome.ret = "True" <=> DOMAIN env_dict # {})

NotSafeMsg == "Executing shell commands from a stream is not safe."

KeptPair(k, v) ==
    /\ \E i \in DOMAIN captured : captured[i] = <<k, v>>
    /\ k \notin {"OLDPWD", "PWD", "SHLVL", "_"}
    /\ ~(k \in DOMAIN envBefore /\ envBefore[k] = v)

CapturedValues == { captured[i][2] : i \in DOMAIN captured }
CapturedKeys == { captured[i][1] : i \in DOMAIN captured }

\* C7 as stated: the mapping direnv_values returns contains exactly the
\* captured pairs whose key is not excluded and whose value differs from
\* the environment's.
C7_ExactlyKeptPairs ==
    pc = "DONE" =>
        \A k \in CapturedKeys \cup DOMAIN env_dict : \A v \in CapturedValues :
            (k \in DOMAIN env_dict /\ env_dict[k] = v) <=> KeptPair(k, v)

\* C7, amended: the mapping contains, for each key, the last captured pair
\* whose key is not excluded and whose value differs from the
\* environment's, and nothing else; without a key captured twice these are
\* exactly the kept pairs.
C7_LastKeptPair ==
    pc = "DONE" =>
        /\ \A k \in DOMAIN env_dict :
              /\ env_dict[k] \in CapturedValues
              /\ KeptPair(k, env_dict[k])
              /\ \A i, j \in DOMAIN captured :
                    (/\ captured[i] = <<k, env_dict[k]>>
                     /\ captured[j][1] = k
                     /\ KeptPair(k, captured[j][2])
                     /\ captured[j][2] # env_dict[k])
                    => \E l \in DOMAIN captured :
                           l > j /\ captured[l] = <<k, env_dict[k]>>
        /\ \A k \in CapturedKeys : \A v \in CapturedValues :
              KeptPair(k, v) => k \in DOMAIN env_dict
        /\ DOMAIN env_dict \cap {"OLDPWD", "PWD", "SHLVL", "_"} = {}
        /\ \A k \in DOMAIN env_dict :
              ~(k \in DOMAIN envBefore /\ envBefore[k] = env_dict[k])

C7_Witness ==
    /\ pc = "DONE"
    /\ args.fn = "direnv_values"
    /\ "PWD" \in DOMAIN envBefore
    /\ \E i \in DOMAIN captured :
          captured[i][1] = "PWD" /\ captured[i][2] # envBefore["PWD"]
    /\ \E i \in DOMAIN captured :
          /\ captured[i][1] \in DOMAIN envBefore
          /\ captured[i][2] = envBefore[captured[i][1]]
    /\ \E i, j \in DOMAIN captured :
          i < j /\ captured[i][1] = captured[j][1] /\ captured[i][2] # captured[j][2]
    /\ DOMAIN env_dict # {}

\* no directory from d up to the root holds a regular file named .envrc
RECURSIVE NoEnvrcAbove(_)
NoEnvrcAbove(d) ==
    /\ ~IsFile(EnvrcIn(d))
    /\ d # Root => NoEnvrcAbove(ParentDir(d))

\* C9: with no path given and no .envrc file found, direnv_values returns
\* an empty mapping and load_direnv does not raise; neither the trust check
\* nor the subprocess has run and the environment is unchanged.
C9_NothingToLoad ==
    (/\ pc \in Terminal
     /\ args.dotenv_path = NoValue
     /\ args.stream = "None"
     /\ ValidArgs
     /\ NoEnvrcAbove(IF interactive THEN cwd ELSE callerDir))
    => /\ pc = "NOT_FOUND"
       /\ outcome.exc = "none"
       /\ env_dict = EmptyMap
       /\ checked = NoValue
       /\ sourced = NoValue
       /\ environ = envBefore

C9_Witness ==
    /\ pc = "NOT_FOUND"
    /\ args.fn = "load_direnv"
    /\ args.dotenv_path = NoValue
    /\ \E d \in Dirs : IsFile(EnvrcIn(d))
    /\ outcome.exc = "none"

\* C10: a second load_direnv on the same unchanged allowed file with the
\* same override flag leaves the environment as the first left it.
C10_Idempotent ==
    (/\ pc = "DONE"
     /\ args.fn = "load_direnv"
     /\ last # NoValue
     /\ last.dotenv_path = args.dotenv_path
     /\ last.override = args.override)
    => environ = last.environ

\* d is start or a directory above it
IsAbove(d, start) == Len(d) <= Len(start) /\ SubSeq(start, 1, Len(d)) = d

\* C6: find_direnv(filename) returns dir/filename for the nearest directory
\* dir, from the start up to the root, that holds a file named filename;
\* when there is none it returns '' or, asked to, raises IOError.
C6_NearestAncestor ==
    (pc = Returned /\ args.fn = "find_direnv" /\ ~args.filename.abs) =>
        LET start == IF args.usecwd \/ interactive THEN cwd ELSE callerDir
            holders == { d \in Dirs : IsAbove(d, start)
                                      /\ IsFile(d \o args.filename.segs) }
        IN  IF holders # {}
            THEN /\ outcome.exc = "none"
                 /\ \E d \in holders :
                       /\ \A e \in holders : Len(e) <= Len(d)
                       /\ dotenv_path = AbsStr(d \o args.filename.segs)
            ELSE IF args.raise_error_if_not_found
                 THEN outcome.exc = "IOError"
                 ELSE outcome.exc = "none" /\ dotenv_path = EmptyStr

C6_Witness ==
    /\ pc = Returned
    /\ args.fn = "find_direnv"
    /\ args.filename = RelEnvrc
    /\ ~args.usecwd
    /\ ~interactive
    /\ callerDir # Root
    /\ cwd # callerDir
    /\ node[callerDir].kind = "dir"
    /\ dotenv_path = AbsStr(EnvrcIn(Root))

\* C8: whatever was changed from outside before the call, is_allowed(path)
\* returns true exactly when path names a file and the allow directory of
\* the data home holds an entry named by the fingerprint of the absolute
\* path and the content whose trimmed text is the real path; on a file,
\* every mismatch yields false and nothing is raised.
C8_AllowedIffEntryMatches ==
    (pc = Returned /\ args.fn = "is_allowed") =>
        /\ outcome.ret = "True" <=>
              (IsFile(AbsPath(args.path)) /\ AllowListed(AbsPath(args.path)))
        /\ IsFile(AbsPath(args.path)) =>
              (outcome.exc = "none" /\ outcome.ret \in {"True", "False"})

C8_Witness ==
    /\ pc = Returned
    /\ args.fn = "is_allowed"
    /\ IsFile(AbsPath(args.path))
    /\ node[DirOf(AbsPath(args.path))].kind = "link"
    /\ Sha256(AbsPath(args.path), ReadFile(AbsPath(args.path))) \in DOMAIN AllowDir
    /\ outcome.ret = "False"

\* the stages of an invocation and the failure states the claim names
Stages == {"RESOLVING", "VERIFYING", "CAPTURING", "RECONCILING"}
FailureStates == {"NOT_FOUND", "NOT_TRUSTED", "EXEC_FAILED"}

\* the environment is written only by the step that leaves RECONCILING
WrittenOnlyReconciling == environ' # environ => (pc = "RECONCILING" /\ pc' = "DONE")

\* C11 as stated: the steps of an invocation when its only outcomes are
\* DONE, NOT_FOUND, NOT_TRUSTED and EXEC_FAILED
ClaimedStep ==
    \/ pc = "idle" /\ pc' = "RESOLVING"
    \/ pc = "RESOLVING" /\ pc' \in {"VERIFYING", "NOT_FOUND"}
    \/ pc = "VERIFYING" /\ pc' \in {"CAPTURING", "NOT_TRUSTED"}
    \/ pc = "CAPTURING" /\ pc' \in {"RECONCILING", "EXEC_FAILED"}
    \/ pc = "RECONCILING" /\ pc' = "DONE"
    \/ pc \in FailureStates \cup {"DONE"} /\ pc' = "idle"

StageStep ==
    \/ pc = "idle" /\ pc' \in {"RESOLVING", "REJECTED"}
    \/ pc = "RESOLVING" /\ pc' \in {"VERIFYING", "NOT_FOUND", "REJECTED"}
    \/ pc = "VERIFYING" /\ pc' \in {"CAPTURING", "NOT_TRUSTED", "IO_ERROR"}
    \/ pc = "CAPTURING" /\ pc' \in {"RECONCILING", "EXEC_FAILED"}
    \/ pc = "RECONCILING" /\ pc' = "DONE"
    \/ pc \in Terminal /\ pc' = "idle"

\* what each outcome says of the invocation that ended in it
OutcomeOf ==
    /\ pc \in Terminal \ {"DONE"} => environ = envBefore
    /\ pc = "REJECTED" => outcome.exc = "NotImplementedError"
    /\ pc = "IO_ERROR" => (outcome.exc = "OSError" /\ ~IsFile(AbsPath(dotenv_path)))
    /\ pc = "NOT_FOUND" => (outcome.exc = "none" /\ dotenv_path = EmptyStr)
    /\ pc = "NOT_TRUSTED" => outcome.exc = "PermissionError"
    /\ pc = "EXEC_FAILED" =>
          /\ outcome.exc = "RuntimeError"
          /\ ShellRun(sourced).returncode # 0
          /\ outcome.stderr = ShellRun(sourced).stderr
    /\ pc = "RECONCILING" => ShellRun(sourced).returncode = 0
    /\ pc = "DONE" => outcome.exc = "none"

=============================================================================
